---- MODULE Spec2Model ----
(***************************************************************************)
(* A model of x-poster-mcp (src/main.py): the OAuth2 authorization-code    *)
(* flow kept in three in-memory tables, the bearer check that fronts the   *)
(* /sse endpoints, the JSON-RPC dispatcher and the send_tweet operation.   *)
(*                                                                         *)
(* Every handler is an `async def` whose body holds no await between its   *)
(* reads and writes of the tables, so the event loop runs each handler     *)
(* body to completion: one action per handler, interleaved in any order.   *)
(*                                                                         *)
(* Time is counted in minutes.  uuid4() and secrets.token_urlsafe() are    *)
(* modelled as sources of values never produced before (rng counts the     *)
(* values drawn); a collision of two random 256-bit values is not          *)
(* modelled.                                                               *)
(***************************************************************************)
EXTENDS Integers, Sequences, FiniteSets, TLC

VARIABLES
    oauth_clients,   \* main.py:23  client_id -> registration record
    oauth_codes,     \* main.py:24  code -> authorization code record
    access_tokens,   \* main.py:25  token -> access token record
    now,             \* datetime.utcnow(), in minutes
    advances,        \* how many times the clock has been advanced
    rng,             \* how many client ids / codes / tokens were generated
    issued,          \* history: every code record authorize ever stored
    minted,          \* history: every token record token_endpoint ever stored
    last             \* the request handled last and its outcome

vars == <<oauth_clients, oauth_codes, access_tokens, now, advances, rng,
          issued, minted, last>>

----------------------------------------------------------------------------
\* Bounds of the model.
MaxClients == 2
MaxCodes == 2
MaxAdvances == 1
MaxTextLen == 2

\* Program constants.
CodeTTL == 10          \* timedelta(minutes=10)
TokenTTL == 1440       \* timedelta(hours=24), in minutes
ExpiresIn == 86400     \* "expires_in" of the token response
MaxTweetChars == 280   \* "max 280 characters" of the tool descriptor

\* The values requests are drawn from.  A request may present any id: one
\* the server has generated, or one it has not generated (yet).
URIs == {"https://a.example/cb", "https://b.example/cb"}
Scopes == {"mcp"}
GrantTypes == {"authorization_code", "refresh_token"}
ClientIds == 1..MaxClients
Codes == 1..MaxCodes
Tokens == 1..MaxCodes
Secret(n) == 1000 + n
Secrets == {Secret(n) : n \in ClientIds}
RedirectLists == {{}, {"https://a.example/cb"}, URIs}
ClockSteps == {CodeTTL, TokenTTL, TokenTTL + 1}

\* A Python dict is a function; d[k] = v and del d[k]:
Put(d, k, v) == [x \in DOMAIN d \cup {k} |-> IF x = k THEN v ELSE d[x]]
Del(d, k) == [x \in DOMAIN d \ {k} |-> d[x]]
EmptyDict == [x \in {} |-> 0]

\* An HTTPException(status_code, detail)
HTTPException(status_code, detail) ==
    [status |-> status_code, detail |-> detail]

----------------------------------------------------------------------------
\* Registration that hands out one fixed client id whatever the input.
register_client_static(redirect_uris) ==
    LET client_id == 1
        client_secret == Secret(client_id)
    IN  [response |-> [status |-> 200, client_id |-> client_id,
                       client_secret |-> client_secret,
                       client_secret_expires_at |-> 0],
         oauth_clients |->
             Put(oauth_clients, client_id,
                 [client_secret |-> client_secret,
                  redirect_uris |-> redirect_uris])]

\* POST /oauth/register: the response and the client table afterwards.  The
\* record's client_name and created_at are stored and never read by a handler
\* that decides anything; they are left out of the record.
register_client(redirect_uris) ==
    LET client_id == rng.client + 1
        client_secret == Secret(client_id)
    IN  [response |-> [status |-> 200, client_id |-> client_id,
                       client_secret |-> client_secret,
                       client_secret_expires_at |-> 0],
         oauth_clients |->
             Put(oauth_clients, client_id,
                 [client_secret |-> client_secret,
                  redirect_uris |-> redirect_uris])]

\* The allow-list check left out.
redirect_allowed_any(client_data, redirect_uri) == TRUE

\* main.py:199  redirect_uri not in client_data["redirect_uris"], negated
redirect_allowed(client_data, redirect_uri) ==
    redirect_uri \in client_data.redirect_uris

\* GET /oauth/authorize
authorize(client_id, redirect_uri, scope) ==
    IF client_id \notin DOMAIN oauth_clients
    THEN [response |-> HTTPException(400, "Invalid client_id"),
          oauth_codes |-> oauth_codes, stored |-> {}]
    ELSE IF ~redirect_allowed(oauth_clients[client_id], redirect_uri)
    THEN [response |-> HTTPException(400, "Invalid redirect_uri"),
          oauth_codes |-> oauth_codes, stored |-> {}]
    ELSE LET auth_code == rng.code + 1
             rec == [client_id |-> client_id, redirect_uri |-> redirect_uri,
                     scope |-> scope, expires_at |-> now + CodeTTL]
         IN  [response |-> [status |-> 307, location |-> redirect_uri,
                            code |-> auth_code],
              oauth_codes |-> Put(oauth_codes, auth_code, rec),
              stored |-> {[code |-> auth_code, client_id |-> client_id,
                           redirect_uri |-> redirect_uri,
                           expires_at |-> now + CodeTTL, at |-> now]}]

\* The expiry comparison made inclusive.
code_expired_inclusive(code_data) == code_data.expires_at <= now

\* The expiry check left out.
code_expired_never(code_data) == FALSE

\* main.py:243  code_data["expires_at"] < datetime.utcnow()
code_expired(code_data) == code_data.expires_at < now

\* The secret comparison left out.
credentials_ok_any_secret(client_id, client_secret) ==
    client_id \in DOMAIN oauth_clients

\* main.py:252  the client is unknown or its secret differs, negated
credentials_ok(client_id, client_secret) ==
    /\ client_id \in DOMAIN oauth_clients
    /\ oauth_clients[client_id].client_secret = client_secret

\* The used code left in the table.
used_code_kept(code) == oauth_codes

\* The used code removed together with every expired code.
used_code_removed_eager(code) ==
    [c \in {x \in DOMAIN oauth_codes \ {code} :
                ~(oauth_codes[x].expires_at < now)} |-> oauth_codes[c]]

\* main.py:267  del oauth_codes[code], after the token is stored
used_code_removed(code) == Del(oauth_codes, code)

\* The exchange with the presented code deleted as soon as it is found.
token_endpoint_consume_first(grant_type, code, redirect_uri, client_id, client_secret) ==
    LET same == [oauth_codes |-> oauth_codes, access_tokens |-> access_tokens,
                 stored |-> {}]
        consumed == [oauth_codes |-> Del(oauth_codes, code),
                     access_tokens |-> access_tokens, stored |-> {}]
    IN
    IF grant_type # "authorization_code"
    THEN [response |-> HTTPException(400, "Unsupported grant type")] @@ same
    ELSE IF code \notin DOMAIN oauth_codes
    THEN [response |-> HTTPException(400, "Invalid authorization code")] @@ same
    ELSE LET code_data == oauth_codes[code] IN
    IF code_expired(code_data)
    THEN [response |-> HTTPException(400, "Authorization code expired")]
             @@ consumed
    ELSE IF code_data.client_id # client_id
    THEN [response |-> HTTPException(400, "Invalid client")] @@ consumed
    ELSE IF ~credentials_ok(client_id, client_secret)
    THEN [response |-> HTTPException(401, "Invalid client credentials")]
             @@ consumed
    ELSE LET access_token == rng.token + 1
             rec == [client_id |-> client_id, scope |-> code_data.scope,
                     expires_at |-> now + TokenTTL]
         IN  [response |-> [status |-> 200, access_token |-> access_token,
                            token_type |-> "Bearer", expires_in |-> ExpiresIn,
                            scope |-> code_data.scope],
              oauth_codes |-> Del(oauth_codes, code),
              access_tokens |-> Put(access_tokens, access_token, rec),
              stored |-> {[token |-> access_token, code |-> code,
                           client_id |-> client_id,
                           expires_at |-> now + TokenTTL, at |-> now]}]

\* The exchange with redirect_uri compared to the one bound to the code.
token_endpoint_bound_redirect(grant_type, code, redirect_uri, client_id, client_secret) ==
    LET same == [oauth_codes |-> oauth_codes, access_tokens |-> access_tokens,
                 stored |-> {}]
    IN
    IF grant_type # "authorization_code"
    THEN [response |-> HTTPException(400, "Unsupported grant type")] @@ same
    ELSE IF code \notin DOMAIN oauth_codes
    THEN [response |-> HTTPException(400, "Invalid authorization code")] @@ same
    ELSE LET code_data == oauth_codes[code] IN
    IF code_expired(code_data)
    THEN [response |-> HTTPException(400, "Authorization code expired"),
          oauth_codes |-> Del(oauth_codes, code),
          access_tokens |-> access_tokens, stored |-> {}]
    ELSE IF code_data.client_id # client_id
    THEN [response |-> HTTPException(400, "Invalid client")] @@ same
    ELSE IF code_data.redirect_uri # redirect_uri
    THEN [response |-> HTTPException(400, "Invalid redirect_uri")] @@ same
    ELSE IF ~credentials_ok(client_id, client_secret)
    THEN [response |-> HTTPException(401, "Invalid client credentials")] @@ same
    ELSE LET access_token == rng.token + 1
             rec == [client_id |-> client_id, scope |-> code_data.scope,
                     expires_at |-> now + TokenTTL]
         IN  [response |-> [status |-> 200, access_token |-> access_token,
                            token_type |-> "Bearer", expires_in |-> ExpiresIn,
                            scope |-> code_data.scope],
              oauth_codes |-> Del(oauth_codes, code),
              access_tokens |-> Put(access_tokens, access_token, rec),
              stored |-> {[token |-> access_token, code |-> code,
                           client_id |-> client_id,
                           expires_at |-> now + TokenTTL, at |-> now]}]

\* POST /oauth/token
token_endpoint(grant_type, code, redirect_uri, client_id, client_secret) ==
    LET same == [oauth_codes |-> oauth_codes, access_tokens |-> access_tokens,
                 stored |-> {}]
    IN
    IF grant_type # "authorization_code"
    THEN [response |-> HTTPException(400, "Unsupported grant type")] @@ same
    ELSE IF code \notin DOMAIN oauth_codes
    THEN [response |-> HTTPException(400, "Invalid authorization code")] @@ same
    ELSE LET code_data == oauth_codes[code] IN
    IF code_expired(code_data)
    THEN [response |-> HTTPException(400, "Authorization code expired"),
          oauth_codes |-> Del(oauth_codes, code),
          access_tokens |-> access_tokens, stored |-> {}]
    ELSE IF code_data.client_id # client_id
    THEN [response |-> HTTPException(400, "Invalid client")] @@ same
    ELSE IF ~credentials_ok(client_id, client_secret)
    THEN [response |-> HTTPException(401, "Invalid client credentials")] @@ same
    ELSE LET access_token == rng.token + 1
             rec == [client_id |-> client_id, scope |-> code_data.scope,
                     expires_at |-> now + TokenTTL]
         IN  [response |-> [status |-> 200, access_token |-> access_token,
                            token_type |-> "Bearer", expires_in |-> ExpiresIn,
                            scope |-> code_data.scope],
              oauth_codes |-> used_code_removed(code),
              access_tokens |-> Put(access_tokens, access_token, rec),
              stored |-> {[token |-> access_token, code |-> code,
                           client_id |-> client_id,
                           expires_at |-> now + TokenTTL, at |-> now]}]

----------------------------------------------------------------------------
\* JSON values, tagged by type.  An object holds a function from its keys;
\* Python's None is JSON null.  A string holds a TLA+ string (JStr); a tweet
\* text is a string held as the tuple of its characters (JText), so that its
\* length and its characters can be told.
JNull == [t |-> "null"]
JStr(s) == [t |-> "str", s |-> s]
JText(chars) == [t |-> "str", chars |-> chars]
JNum(n) == [t |-> "num", n |-> n]
JObj(f) == [t |-> "obj", o |-> f]
JArr == [t |-> "arr"]

\* dict.get(key, default)
Get(d, key, default) == IF key \in DOMAIN d.o THEN d.o[key] ELSE default

\* An Optional[str] is a set of at most one element: {} is None.
None == {}
Some(x) == {x}

\* What client.create_tweet does: it returns the created tweet's id, or raises.
TweetIds == {"1850001", "1850002"}
ApiErrors == {"403 Forbidden", "429 Too Many Requests"}
ApiOutcomes == [ok : {TRUE}, id : TweetIds] \cup [ok : {FALSE}, error : ApiErrors]

\* The tool list with a second tool registered.
tools_two ==
    <<[name |-> "send_tweet",
       description |-> "Send a tweet to X/Twitter",
       inputSchema |-> [type |-> "object", required |-> <<"text">>]],
      [name |-> "delete_tweet",
       description |-> "Delete a tweet",
       inputSchema |-> [type |-> "object", required |-> <<"id">>]]>>

\* self.tools
tools == <<[name |-> "send_tweet",
            description |-> "Send a tweet to X/Twitter",
            inputSchema |-> [type |-> "object", required |-> <<"text">>]]>>

\* The JSON-RPC envelopes handle_request and send_tweet return.
Result(request_id, result) ==
    [jsonrpc |-> "2.0", id |-> request_id, result |-> result]
\* The error envelope built without the request's id.
Error_null_id(request_id, code, message) ==
    [jsonrpc |-> "2.0", id |-> JNull,
     error |-> [code |-> code, message |-> message]]

Error(request_id, code, message) ==
    [jsonrpc |-> "2.0", id |-> request_id,
     error |-> [code |-> code, message |-> message]]
TextContent(text) == [content |-> <<[type |-> "text", text |-> text]>>]

\* args["text"]: the value, or the exception Python raises.
Subscript(args) ==
    IF args.t = "obj"
    THEN IF "text" \in DOMAIN args.o
         THEN [raised |-> FALSE, value |-> args.o["text"]]
         ELSE [raised |-> TRUE, exc |-> "KeyError: 'text'"]
    ELSE [raised |-> TRUE, exc |-> "TypeError"]

\* send_tweet with args["text"] read before the try block is entered.
send_tweet_unguarded(request_id, args, outcome) ==
    LET sub == Subscript(args) IN
    IF sub.raised
    THEN [raised |-> TRUE, exc |-> sub.exc, calls |-> <<>>]
    ELSE IF outcome.ok
    THEN [raised |-> FALSE, calls |-> <<sub.value>>,
          response |-> Result(request_id, TextContent(
              <<"[ok] Tweet posted successfully!\n\nTweet: ", sub.value,
                "\nURL: ", <<"https://twitter.com/user/status/", outcome.id>>>>))]
    ELSE [raised |-> FALSE, calls |-> <<sub.value>>,
          response |-> Result(request_id, TextContent(
              <<"[failed] Failed to post tweet: ", outcome.error>>))]

\* XPosterMCP.send_tweet.  `outcome` is what create_tweet does if it is called;
\* `calls` lists the texts create_tweet was called with; `raised` says whether
\* an exception leaves the function (the try block spans its whole body).
\* The cross / check mark that opens the message is written "[failed]" / "[ok]".
send_tweet(request_id, args, outcome) ==
    LET sub == Subscript(args) IN
    IF sub.raised
    THEN [raised |-> FALSE, calls |-> <<>>,
          response |-> Result(request_id, TextContent(
                          <<"[failed] Failed to post tweet: ", sub.exc>>))]
    ELSE LET tweet_text == sub.value IN
         IF outcome.ok
         THEN LET tweet_url == <<"https://twitter.com/user/status/", outcome.id>>
              IN  [raised |-> FALSE, calls |-> <<tweet_text>>,
                   response |-> Result(request_id, TextContent(
                         <<"[ok] Tweet posted successfully!\n\nTweet: ",
                           tweet_text, "\nURL: ", tweet_url>>))]
         ELSE [raised |-> FALSE, calls |-> <<tweet_text>>,
               response |-> Result(request_id, TextContent(
                         <<"[failed] Failed to post tweet: ", outcome.error>>))]

\* XPosterMCP.handle_request: the response, or the exception that leaves it.
\* auth_token is a parameter the body never reads.
handle_request(request_data, auth_token, outcome) ==
    IF request_data.t # "obj"
    THEN [raised |-> TRUE, exc |-> "AttributeError", calls |-> <<>>]
    ELSE
    LET method == Get(request_data, "method", JNull)
        request_id == Get(request_data, "id", JNull)
        not_found == [raised |-> FALSE, calls |-> <<>>,
                      response |-> Error(request_id, -32601, "Method not found")]
    IN
    IF method = JStr("initialize")
    THEN [raised |-> FALSE, calls |-> <<>>,
          response |-> Result(request_id,
              [protocolVersion |-> "2024-11-05",
               capabilities |-> [tools |-> <<>>],
               serverInfo |-> [name |-> "x-poster-mcp", version |-> "1.0.0"]])]
    ELSE IF method = JStr("tools/list")
    THEN [raised |-> FALSE, calls |-> <<>>,
          response |-> Result(request_id, [tools |-> tools])]
    ELSE IF method = JStr("tools/call")
    THEN LET params == Get(request_data, "params", JObj(<<>>)) IN
         IF params.t # "obj"
         THEN [raised |-> TRUE, exc |-> "AttributeError", calls |-> <<>>]
         ELSE LET tool_name == Get(params, "name", JNull)
                  arguments == Get(params, "arguments", JObj(<<>>))
              IN  IF tool_name = JStr("send_tweet")
                  THEN send_tweet(request_id, arguments, outcome)
                  ELSE not_found
    ELSE not_found

\* The Authorization header: None, or a string split after its 7th character.
Bearer(token) == Some([prefix |-> "Bearer ", rest |-> token])
Basic(cred) == Some([prefix |-> "Basic x", rest |-> cred])

\* The expiry comparison left out.
token_unexpired_always(token_data) == TRUE

\* main.py:284  token_data["expires_at"] > datetime.utcnow()
token_unexpired(token_data) == token_data.expires_at > now

\* get_auth_token: the token returned (or None) and the token table afterwards.
get_auth_token(auth_header) ==
    IF auth_header # None /\ (\E h \in auth_header : h.prefix = "Bearer ")
    THEN LET token == (CHOOSE h \in auth_header : TRUE).rest IN
         IF token \in DOMAIN access_tokens
         THEN IF token_unexpired(access_tokens[token])
              THEN [auth_token |-> Some(token), access_tokens |-> access_tokens]
              ELSE [auth_token |-> None,
                    access_tokens |-> Del(access_tokens, token)]
         ELSE [auth_token |-> None, access_tokens |-> access_tokens]
    ELSE [auth_token |-> None, access_tokens |-> access_tokens]

\* A request body: empty, text json.loads rejects (JSONDecodeError), bytes
\* that are no UTF-8 text (UnicodeDecodeError), or the JSON value it holds.
EmptyBody == [kind |-> "empty"]
BadJson == [kind |-> "invalid"]
NotUtf8 == [kind |-> "undecodable"]
Json(value) == [kind |-> "json", value |-> value]

\* event_stream with the `return` after the initialize frame missing: the
\* empty body then reaches json.loads.
event_stream_no_return(body, auth_token, outcome) ==
    IF body.kind = "empty"
    THEN LET init == JObj([jsonrpc |-> JStr("2.0"),
                           method |-> JStr("initialize"), id |-> JNum(1)])
             r == handle_request(init, auth_token, outcome)
         IN  [frames |-> <<r.response, Error(JNull, -32700, "Parse error")>>,
              dispatched |-> <<init>>, calls |-> r.calls]
    ELSE IF body.kind = "invalid"
    THEN [frames |-> <<Error(JNull, -32700, "Parse error")>>,
          dispatched |-> <<>>, calls |-> <<>>]
    ELSE IF body.kind = "undecodable"
    THEN [frames |-> <<Error(JNull, -32603, "Internal error")>>,
          dispatched |-> <<>>, calls |-> <<>>]
    ELSE LET request_data == body.value
             r == handle_request(request_data, auth_token, outcome)
         IN  IF r.raised
             THEN [frames |-> <<Error(JNull, -32603, "Internal error")>>,
                   dispatched |-> <<request_data>>, calls |-> r.calls]
             ELSE [frames |-> <<r.response>>,
                   dispatched |-> <<request_data>>, calls |-> r.calls]

\* event_stream of POST /sse: the frames it yields, the requests it hands to
\* handle_request, and the texts create_tweet was called with.
event_stream(body, auth_token, outcome) ==
    IF body.kind = "empty"
    THEN LET init == JObj([jsonrpc |-> JStr("2.0"),
                           method |-> JStr("initialize"), id |-> JNum(1)])
             r == handle_request(init, auth_token, outcome)
         IN  [frames |-> <<r.response>>, dispatched |-> <<init>>,
              calls |-> r.calls]
    ELSE IF body.kind = "invalid"
    THEN [frames |-> <<Error(JNull, -32700, "Parse error")>>,
          dispatched |-> <<>>, calls |-> <<>>]
    ELSE IF body.kind = "undecodable"
    THEN [frames |-> <<Error(JNull, -32603, "Internal error")>>,
          dispatched |-> <<>>, calls |-> <<>>]
    ELSE LET request_data == body.value
             r == handle_request(request_data, auth_token, outcome)
         IN  IF r.raised
             THEN [frames |-> <<Error(JNull, -32603, "Internal error")>>,
                   dispatched |-> <<request_data>>, calls |-> r.calls]
             ELSE [frames |-> <<r.response>>,
                   dispatched |-> <<request_data>>, calls |-> r.calls]

\* POST /sse
mcp_endpoint(auth_header, body, outcome) ==
    LET g == get_auth_token(auth_header)
        s == event_stream(body, g.auth_token, outcome)
    IN  [auth_token |-> g.auth_token, access_tokens |-> g.access_tokens,
         frames |-> s.frames, dispatched |-> s.dispatched, calls |-> s.calls]

\* GET /sse: the initialize frame; the keep-alive comments that follow
\* forever carry no data and are not modelled.
mcp_endpoint_get(auth_header) ==
    LET g == get_auth_token(auth_header)
        init == JObj([jsonrpc |-> JStr("2.0"),
                      method |-> JStr("initialize"), id |-> JNum(1)])
        r == handle_request(init, g.auth_token, [ok |-> FALSE, error |-> ""])
    IN  [auth_token |-> g.auth_token, access_tokens |-> g.access_tokens,
         frames |-> <<r.response>>, dispatched |-> <<init>>, calls |-> r.calls]

\* The requests the model sends.
Chars == {" ", "a"}
LongText(n) == [i \in 1..n |-> "a"]
Texts == UNION {[1..n -> Chars] : n \in 0..MaxTextLen}
             \cup {LongText(MaxTweetChars), LongText(MaxTweetChars + 1)}
Headers == {None, Basic(1)} \cup {Bearer(t) : t \in Tokens}
CallTweet(id, text) ==
    JObj([jsonrpc |-> JStr("2.0"), id |-> id, method |-> JStr("tools/call"),
          params |-> JObj([name |-> JStr("send_tweet"),
                           arguments |-> JObj([text |-> JText(text)])])])
SseBodies == {EmptyBody, Json(CallTweet(JNum(7), <<"a">>))}
SseOutcomes == {[ok |-> TRUE, id |-> "1850001"],
                [ok |-> FALSE, error |-> "403 Forbidden"]}

----------------------------------------------------------------------------
Init ==
    /\ oauth_clients = EmptyDict
    /\ oauth_codes = EmptyDict
    /\ access_tokens = EmptyDict
    /\ now = 0
    /\ advances = 0
    /\ rng = [client |-> 0, code |-> 0, token |-> 0]
    /\ issued = {}
    /\ minted = {}
    /\ last = [op |-> "start"]

\* Time passes between requests.
Advance ==
    /\ advances < MaxAdvances
    /\ \E d \in ClockSteps : now' = now + d
    /\ advances' = advances + 1
    /\ last' = [op |-> "advance"]
    /\ UNCHANGED <<oauth_clients, oauth_codes, access_tokens, rng, issued, minted>>

Register ==
    /\ rng.client < MaxClients
    /\ \E redirect_uris \in RedirectLists :
         LET r == register_client(redirect_uris)
         IN  /\ oauth_clients' = r.oauth_clients
             /\ last' = [op |-> "register", response |-> r.response]
    /\ rng' = [rng EXCEPT !.client = @ + 1]
    /\ UNCHANGED <<oauth_codes, access_tokens, now, advances, issued, minted>>

Authorize ==
    /\ rng.code < MaxCodes
    /\ \E client_id \in ClientIds, redirect_uri \in URIs, scope \in Scopes :
         LET r == authorize(client_id, redirect_uri, scope)
         IN  /\ oauth_codes' = r.oauth_codes
             /\ issued' = issued \cup r.stored
             /\ rng' = [rng EXCEPT !.code = @ + Cardinality(r.stored)]
             /\ last' = [op |-> "authorize", client_id |-> client_id,
                         redirect_uri |-> redirect_uri, response |-> r.response]
    /\ UNCHANGED <<oauth_clients, access_tokens, now, advances, minted>>

TokenExchange ==
    /\ \E grant_type \in GrantTypes, code \in Codes, redirect_uri \in URIs,
          client_id \in ClientIds, client_secret \in Secrets :
         LET r == token_endpoint(grant_type, code, redirect_uri, client_id,
                                 client_secret)
         IN  /\ oauth_codes' = r.oauth_codes
             /\ access_tokens' = r.access_tokens
             /\ minted' = minted \cup r.stored
             /\ rng' = [rng EXCEPT !.token = @ + Cardinality(r.stored)]
             /\ last' = [op |-> "token", grant_type |-> grant_type,
                         code |-> code, redirect_uri |-> redirect_uri,
                         client_id |-> client_id,
                         client_secret |-> client_secret,
                         response |-> r.response]
    /\ UNCHANGED <<oauth_clients, now, advances, issued>>

SsePost ==
    /\ \E auth_header \in Headers, body \in SseBodies, outcome \in SseOutcomes :
         LET r == mcp_endpoint(auth_header, body, outcome)
         IN  /\ access_tokens' = r.access_tokens
             /\ last' = [op |-> "sse_post", auth_header |-> auth_header,
                         auth_token |-> r.auth_token, frames |-> r.frames,
                         dispatched |-> r.dispatched, calls |-> r.calls]
    /\ UNCHANGED <<oauth_clients, oauth_codes, now, advances, rng, issued, minted>>

SseGet ==
    /\ \E auth_header \in Headers :
         LET r == mcp_endpoint_get(auth_header)
         IN  /\ access_tokens' = r.access_tokens
             /\ last' = [op |-> "sse_get", auth_header |-> auth_header,
                         auth_token |-> r.auth_token, frames |-> r.frames,
                         dispatched |-> r.dispatched, calls |-> r.calls]
    /\ UNCHANGED <<oauth_clients, oauth_codes, now, advances, rng, issued, minted>>

Next ==
    \/ Advance
    \/ Register
    \/ Authorize
    \/ TokenExchange
    \/ SsePost
    \/ SseGet

Spec == Init /\ [][Next]_vars

----------------------------------------------------------------------------
\* The dispatcher on its own: a request (or a direct call of send_tweet) is
\* drawn, then handled.  The dispatcher reads and writes no table.

\* The object holding the keys of `opts` whose Optional value is not None.
Fields(opts) ==
    [k \in {j \in DOMAIN opts : opts[j] # None} |-> CHOOSE x \in opts[k] : TRUE]

ArgsValues ==
    {JNull, JArr, JObj(<<>>)} \cup {JObj([text |-> JText(t)]) : t \in Texts}
ParamsValues ==
    {JNull, JArr} \cup
    {JObj(Fields([name |-> n, arguments |-> a])) :
        n \in {None, Some(JStr("send_tweet")), Some(JStr("get_tweet"))},
        a \in {None} \cup {Some(x) : x \in ArgsValues}}
MethodValues ==
    {JStr("initialize"), JStr("tools/list"), JStr("tools/call"),
     JStr("resources/list"), JNull}
IdValues == {JNull, JNum(1), JStr("req-2")}
Requests ==
    {JArr, JStr("initialize")} \cup
    {JObj(Fields([method |-> m, id |-> i, params |-> p])) :
        m \in {None} \cup {Some(x) : x \in MethodValues},
        i \in {None} \cup {Some(x) : x \in IdValues},
        p \in {None} \cup {Some(x) : x \in ParamsValues}}

InitDispatch ==
    /\ oauth_clients = EmptyDict
    /\ oauth_codes = EmptyDict
    /\ access_tokens = EmptyDict
    /\ now = 0
    /\ advances = 0
    /\ rng = [client |-> 0, code |-> 0, token |-> 0]
    /\ issued = {}
    /\ minted = {}
    /\ \/ \E request_data \in Requests, outcome \in ApiOutcomes :
            last = [op |-> "request", request_data |-> request_data,
                    outcome |-> outcome]
       \/ \E request_id \in IdValues, args \in ArgsValues, outcome \in ApiOutcomes :
            last = [op |-> "call", request_id |-> request_id, args |-> args,
                    outcome |-> outcome]

HandleRequest ==
    /\ last.op = "request"
    /\ last' = [op |-> "handle_request", request_data |-> last.request_data,
                outcome |-> last.outcome,
                result |-> handle_request(last.request_data, None, last.outcome)]
    /\ UNCHANGED <<oauth_clients, oauth_codes, access_tokens, now, advances,
                   rng, issued, minted>>

SendTweet ==
    /\ last.op = "call"
    /\ last' = [op |-> "send_tweet", request_id |-> last.request_id,
                args |-> last.args, outcome |-> last.outcome,
                result |-> send_tweet(last.request_id, last.args, last.outcome)]
    /\ UNCHANGED <<oauth_clients, oauth_codes, access_tokens, now, advances,
                   rng, issued, minted>>

NextDispatch ==
    \/ HandleRequest
    \/ SendTweet

SpecDispatch == InitDispatch /\ [][NextDispatch]_vars

----------------------------------------------------------------------------
\* What the properties below speak of.

\* The token a header presents as a bearer token, as a set of at most one.
HeaderToken(auth_header) ==
    {h.rest : h \in {x \in auth_header : x.prefix = "Bearer "}}

\* The codes that were exchanged for a token.
MintedCodes == {m.code : m \in minted}

InvalidCode == HTTPException(400, "Invalid authorization code")
CodeExpired == HTTPException(400, "Authorization code expired")

\* The last request was a token exchange presenting client_id's own secret.
LastTokenRequestBy(code, client_id) ==
    /\ last.op = "token"
    /\ last.grant_type = "authorization_code"
    /\ last.code = code
    /\ last.client_id = client_id
    /\ client_id \in DOMAIN oauth_clients
    /\ last.client_secret = oauth_clients[client_id].client_secret

HasText(args) == args.t = "obj" /\ "text" \in DOMAIN args.o
TextOf(args) == args.o["text"].chars
IsBlank(chars) == \A i \in 1..Len(chars) : chars[i] = " "
IsFailure(response) ==
    /\ "result" \in DOMAIN response
    /\ response.result.content[1].text[1] = "[failed] Failed to post tweet: "

\* C1: a request on POST /sse is dispatched only if it presents a bearer token
\* that is in the token table and has not expired.
C1_DispatchOnlyWithValidToken ==
    (last.op = "sse_post" /\ last.dispatched # <<>>) =>
        \E t \in HeaderToken(last.auth_header) :
            /\ t \in DOMAIN access_tokens
            /\ access_tokens[t].expires_at > now

\* C2: once a code has been exchanged for a token, every exchange presenting
\* it (any client id, secret and redirect URI, at any later time) answers
\* 400 "Invalid authorization code" and stores no token.
C2_ExchangedCodeIsInvalid ==
    \A m \in minted :
        /\ \A u \in URIs, c \in ClientIds, s \in Secrets :
              LET r == token_endpoint("authorization_code", m.code, u, c, s)
              IN  /\ r.response = InvalidCode
                  /\ r.stored = {}
                  /\ r.access_tokens = access_tokens
        /\ (last.op = "token" /\ last.grant_type = "authorization_code"
                /\ last.code = m.code) =>
              \/ last.response = InvalidCode
              \/ /\ last.response.status = 200
                 /\ last.response.access_token = m.token

\* A second exchange of a used code, by its owner with the right secret, at a
\* later time, was answered "Invalid authorization code".
C2_Witness ==
    \E m \in minted :
        /\ LastTokenRequestBy(m.code, m.client_id)
        /\ last.response = InvalidCode
        /\ now > m.expires_at - TokenTTL

\* C3: however the token exchanges presenting one code are interleaved, at
\* most one token is ever minted for that code.
C3_AtMostOneTokenPerCode ==
    /\ \A c \in Codes : Cardinality({m \in minted : m.code = c}) <= 1
    /\ \A t \in DOMAIN access_tokens : \E m \in minted : m.token = t

\* Two exchanges of one code by its owner at the same instant: the second was
\* refused and the code has one token.
C3_Witness ==
    \E m \in minted :
        /\ LastTokenRequestBy(m.code, m.client_id)
        /\ last.response = InvalidCode
        /\ now = m.expires_at - TokenTTL
        /\ Cardinality({x \in minted : x.code = m.code}) = 1

\* C4: a bearer token presented after its expiry is rejected (get_auth_token
\* returns None) and is gone from the token table afterwards, on its first
\* presentation and on every later one.
C4_ExpiredTokenRejected ==
    /\ \A t \in DOMAIN access_tokens :
          \E m \in minted :
              m.token = t /\ m.expires_at = access_tokens[t].expires_at
    /\ \A m \in minted :
          now > m.expires_at =>
              /\ LET g == get_auth_token(Bearer(m.token))
                 IN  g.auth_token = None /\ m.token \notin DOMAIN g.access_tokens
              /\ (last.op \in {"sse_post", "sse_get"}
                      /\ last.auth_header = Bearer(m.token)) =>
                    /\ last.auth_token = None
                    /\ m.token \notin DOMAIN access_tokens

\* An expired token was presented and rejected, and is no longer stored.
C4_Witness ==
    \E m \in minted :
        /\ now > m.expires_at
        /\ last.op = "sse_post"
        /\ last.auth_header = Bearer(m.token)
        /\ last.auth_token = None
        /\ m.token \notin DOMAIN access_tokens

\* C5: an exchange presenting a stored code whose expiry has passed answers
\* 400 "Authorization code expired" and stores no token, whatever client id
\* and secret it presents; no token is minted from a code after its expiry.
C5_ExpiredCodeRejected ==
    /\ \A code \in DOMAIN oauth_codes :
          oauth_codes[code].expires_at < now =>
              \A u \in URIs, c \in ClientIds, s \in Secrets :
                  LET r == token_endpoint("authorization_code", code, u, c, s)
                  IN  /\ r.response = CodeExpired
                      /\ r.stored = {}
                      /\ r.access_tokens = access_tokens
    /\ \A m \in minted, i \in issued :
          i.code = m.code => m.expires_at - TokenTTL <= i.expires_at
    /\ \A i \in issued :
          (last.op = "token" /\ last.code = i.code /\ i.expires_at < now) =>
              last.response.status # 200

\* A never-used code was presented after its expiry by its owner with the
\* right secret, and the answer was "Authorization code expired".
C5_Witness ==
    \E i \in issued :
        /\ LastTokenRequestBy(i.code, i.client_id)
        /\ i.expires_at < now
        /\ i.code \notin MintedCodes
        /\ last.response = CodeExpired
        /\ i.code \notin DOMAIN oauth_codes

\* C6: an exchange mints a token only when the code is stored, unexpired and
\* bound to the presented client id, and the presented secret is that
\* client's; so every token record names a registered client to which
\* authorize had issued the code that was consumed for it.
C6_TokenOnlyFromValidExchange ==
    /\ \A g \in GrantTypes, code \in Codes, u \in URIs, c \in ClientIds,
          s \in Secrets :
          LET r == token_endpoint(g, code, u, c, s)
          IN  r.stored # {} =>
                  /\ g = "authorization_code"
                  /\ code \in DOMAIN oauth_codes
                  /\ ~(oauth_codes[code].expires_at < now)
                  /\ oauth_codes[code].client_id = c
                  /\ c \in DOMAIN oauth_clients
                  /\ oauth_clients[c].client_secret = s
                  /\ code \notin DOMAIN r.oauth_codes
    /\ \A t \in DOMAIN access_tokens :
          /\ access_tokens[t].client_id \in DOMAIN oauth_clients
          /\ \E m \in minted, i \in issued :
                /\ m.token = t
                /\ m.client_id = access_tokens[t].client_id
                /\ i.code = m.code
                /\ i.client_id = m.client_id
                /\ i.expires_at - CodeTTL <= m.expires_at - TokenTTL
                /\ i.code \notin DOMAIN oauth_codes
    /\ (last.op = "token" /\ last.response.status = 200) =>
          /\ last.grant_type = "authorization_code"
          /\ last.client_id \in DOMAIN oauth_clients
          /\ last.client_secret = oauth_clients[last.client_id].client_secret
          /\ \E i \in issued :
                i.code = last.code /\ i.client_id = last.client_id

\* An exchange succeeded and its token is stored.
C6_Witness ==
    /\ last.op = "token"
    /\ last.response.status = 200
    /\ last.response.access_token \in DOMAIN access_tokens

C8_BlankTextNeverPosted ==
    (last.op = "send_tweet" /\ HasText(last.args)
         /\ IsBlank(TextOf(last.args))) =>
        /\ last.result.calls = <<>>
        /\ IsFailure(last.result.response)

\* C9: for a text longer than 280 characters, send_tweet returns a failure
\* message and create_tweet is not called.
C9_LongTextNeverPosted ==
    (last.op = "send_tweet" /\ HasText(last.args)
         /\ Len(TextOf(last.args)) > MaxTweetChars) =>
        /\ last.result.calls = <<>>
        /\ IsFailure(last.result.response)

\* C10: send_tweet raises nothing: for every arguments value and every
\* outcome of create_tweet it returns a response with a result and no error,
\* whose text reports the failure when args["text"] or create_tweet failed.
C10_SendTweetAlwaysReturnsResult ==
    last.op = "send_tweet" =>
        /\ ~last.result.raised
        /\ "result" \in DOMAIN last.result.response
        /\ "error" \notin DOMAIN last.result.response
        /\ (~HasText(last.args) \/ ~last.outcome.ok) =>
               IsFailure(last.result.response)
        /\ (HasText(last.args) /\ last.outcome.ok) =>
               ~IsFailure(last.result.response)

\* send_tweet was called with arguments that hold no text and returned a
\* failure message as a result.
C10_Witness ==
    /\ last.op = "send_tweet"
    /\ ~HasText(last.args)
    /\ ~last.result.raised
    /\ IsFailure(last.result.response)
    /\ last.result.calls = <<>>

\* The tool a tools/call request names: null when params holds no name or is
\* no object.
ToolName(request_data) ==
    LET params == Get(request_data, "params", JObj(<<>>))
    IN  IF params.t = "obj" THEN Get(params, "name", JNull) ELSE JNull

IsMethodNotFound(result) ==
    /\ ~result.raised
    /\ "error" \in DOMAIN result.response
    /\ "result" \notin DOMAIN result.response
    /\ result.response.error.code = -32601

\* C11: handle_request answers error -32601, and raises nothing, for every
\* request object whose method is none of initialize, tools/list and
\* tools/call, and for every tools/call that does not name send_tweet.
C11_UnknownMethodOrToolNotFound ==
    (/\ last.op = "handle_request"
     /\ last.request_data.t = "obj"
     /\ LET method == Get(last.request_data, "method", JNull)
        IN  \/ method \notin {JStr("initialize"), JStr("tools/list"),
                              JStr("tools/call")}
            \/ /\ method = JStr("tools/call")
               /\ ToolName(last.request_data) # JStr("send_tweet"))
        => IsMethodNotFound(last.result)

\* C13: every response handle_request or send_tweet returns carries the id of
\* the request it answers, null when the request holds none.
C13_ResponseCarriesRequestId ==
    /\ (last.op = "handle_request" /\ ~last.result.raised) =>
           last.result.response.id = Get(last.request_data, "id", JNull)
    /\ last.op = "send_tweet" =>
           last.result.response.id = last.request_id

\* A tools/call of send_tweet with id "req-2" failed at create_tweet and the
\* failure result carries "req-2".
C13_Witness ==
    /\ last.op = "handle_request"
    /\ last.request_data.t = "obj"
    /\ Get(last.request_data, "id", JNull) = JStr("req-2")
    /\ ~last.result.raised
    /\ last.result.calls # <<>>
    /\ IsFailure(last.result.response)
    /\ last.result.response.id = JStr("req-2")

----------------------------------------------------------------------------
\* POST /sse on its own: a header, a body and what create_tweet would do are
\* drawn, then the endpoint handles them.

Bodies == {EmptyBody, BadJson, NotUtf8} \cup {Json(r) : r \in Requests}

InitStream ==
    /\ oauth_clients = EmptyDict
    /\ oauth_codes = EmptyDict
    /\ access_tokens = EmptyDict
    /\ now = 0
    /\ advances = 0
    /\ rng = [client |-> 0, code |-> 0, token |-> 0]
    /\ issued = {}
    /\ minted = {}
    /\ \E auth_header \in {None, Bearer(1)}, body \in Bodies,
          outcome \in SseOutcomes :
            last = [op |-> "post", auth_header |-> auth_header,
                    body |-> body, outcome |-> outcome]

StreamPost ==
    /\ last.op = "post"
    /\ LET r == mcp_endpoint(last.auth_header, last.body, last.outcome)
       IN  /\ access_tokens' = r.access_tokens
           /\ last' = [op |-> "stream", auth_header |-> last.auth_header,
                       body |-> last.body, outcome |-> last.outcome,
                       auth_token |-> r.auth_token, frames |-> r.frames,
                       dispatched |-> r.dispatched, calls |-> r.calls]
    /\ UNCHANGED <<oauth_clients, oauth_codes, now, advances, rng, issued, minted>>

NextStream == StreamPost

SpecStream == InitStream /\ [][NextStream]_vars

\* The one frame of a stream is the error frame with this code and a null id.
IsErrorFrame(frames, code) ==
    /\ Len(frames) = 1
    /\ "error" \in DOMAIN frames[1]
    /\ frames[1].error.code = code
    /\ frames[1].id = JNull

\* The body is not a JSON-RPC request object: it is not JSON, or is JSON that
\* is no object.
Malformed(body) ==
    \/ body.kind \in {"invalid", "undecodable"}
    \/ body.kind = "json" /\ body.value.t # "obj"

\* C12: on POST /sse a malformed body (invalid JSON, or JSON that is not an
\* object) is answered with error -32700; -32603 is kept for failures inside
\* the handling of a well-formed request.
C12_MalformedBodyIsParseError ==
    (last.op = "stream" /\ Malformed(last.body)) =>
        IsErrorFrame(last.frames, -32700)

\* C17: the stream of a POST /sse ends after exactly one data frame: the
\* initialize response with id 1 for an empty body, the dispatcher's response
\* for a body it answers, and one error frame with a null id when parsing or
\* handling fails.
C17_ExactlyOneFrame ==
    last.op = "stream" =>
        /\ Len(last.frames) = 1
        /\ last.body.kind = "empty" =>
              /\ last.frames[1].id = JNum(1)
              /\ "result" \in DOMAIN last.frames[1]
              /\ last.frames[1].result.protocolVersion = "2024-11-05"
        /\ last.body.kind \in {"invalid", "undecodable"} =>
              \/ IsErrorFrame(last.frames, -32700)
              \/ IsErrorFrame(last.frames, -32603)
        /\ last.body.kind = "json" =>
              LET r == handle_request(last.body.value, last.auth_token,
                                      last.outcome)
              IN  IF r.raised
                  THEN IsErrorFrame(last.frames, -32603)
                  ELSE last.frames = <<r.response>>

\* A body holding a tools/call whose params is no object made the dispatcher
\* raise, and the stream is the single -32603 frame.
C17_Witness ==
    /\ last.op = "stream"
    /\ last.body.kind = "json"
    /\ last.body.value.t = "obj"
    /\ last.dispatched # <<>>
    /\ IsErrorFrame(last.frames, -32603)

----------------------------------------------------------------------------
\* A session against the dispatcher: any one earlier request (or none), then
\* initialize, tools/list and tools/call(send_tweet, {text: "hello"}), handled
\* in order against a create_tweet that succeeds for the three.

Hello == <<"h", "e", "l", "l", "o">>
Handshake ==
    <<JObj([jsonrpc |-> JStr("2.0"), id |-> JNum(1),
            method |-> JStr("initialize")]),
      JObj([jsonrpc |-> JStr("2.0"), id |-> JNum(2),
            method |-> JStr("tools/list")]),
      CallTweet(JNum(3), Hello)>>

InitSession ==
    /\ oauth_clients = EmptyDict
    /\ oauth_codes = EmptyDict
    /\ access_tokens = EmptyDict
    /\ now = 0
    /\ advances = 0
    /\ rng = [client |-> 0, code |-> 0, token |-> 0]
    /\ issued = {}
    /\ minted = {}
    /\ \E before \in {<<>>} \cup {<<r>> : r \in Requests},
          earlier \in SseOutcomes, id \in TweetIds :
            last = [op |-> "session", pending |-> before \o Handshake,
                    earlier |-> earlier, id |-> id, results |-> <<>>]

\* The next pending request is handled.
SessionStep ==
    /\ last.op = "session"
    /\ last.pending # <<>>
    /\ LET outcome == IF Len(last.pending) > Len(Handshake)
                      THEN last.earlier
                      ELSE [ok |-> TRUE, id |-> last.id]
           r == handle_request(Head(last.pending), None, outcome)
       IN  last' = [last EXCEPT !.pending = Tail(@),
                                !.results = Append(@, r)]
    /\ UNCHANGED <<oauth_clients, oauth_codes, access_tokens, now, advances,
                   rng, issued, minted>>

NextSession == SessionStep

SpecSession == InitSession /\ [][NextSession]_vars

\* C14: initialize, tools/list and tools/call(send_tweet, {text: "hello"})
\* against a create_tweet that succeeds return, in order, a result naming the
\* protocol version and the capabilities, a tool list holding exactly the tool
\* send_tweet, and a success result whose text holds the URL of the id
\* create_tweet returned, whatever request was dispatched before them.
C14_HandshakeThenTweet ==
    (last.op = "session" /\ last.pending = <<>>) =>
        LET n == Len(last.results)
            r1 == last.results[n - 2]
            r2 == last.results[n - 1]
            r3 == last.results[n]
        IN  /\ ~r1.raised /\ ~r2.raised /\ ~r3.raised
            /\ r1.response.id = JNum(1)
            /\ r1.response.result.protocolVersion = "2024-11-05"
            /\ "capabilities" \in DOMAIN r1.response.result
            /\ r2.response.id = JNum(2)
            /\ Len(r2.response.result.tools) = 1
            /\ r2.response.result.tools[1].name = "send_tweet"
            /\ r3.response.id = JNum(3)
            /\ r3.calls = <<JText(Hello)>>
            /\ ~IsFailure(r3.response)
            /\ LET text == r3.response.result.content[1].text
               IN  /\ text[1] = "[ok] Tweet posted successfully!\n\nTweet: "
                   /\ text[2] = JText(Hello)
                   /\ text[4] = <<"https://twitter.com/user/status/", last.id>>

\* The three requests were answered after an earlier tools/call had posted a
\* tweet.
C14_Witness ==
    /\ last.op = "session"
    /\ last.pending = <<>>
    /\ Len(last.results) = 4
    /\ last.results[1].calls # <<>>
    /\ last.results[4].calls = <<JText(Hello)>>

----------------------------------------------------------------------------
\* Frame conditions of the three tables, over the steps of Spec.

\* C15: no step removes a client record or changes its secret or redirect
\* URIs; a registration adds exactly one record; every other operation leaves
\* the client table as it was.
C15_ClientRecordsImmutable ==
    [][/\ \A c \in DOMAIN oauth_clients :
             /\ c \in DOMAIN oauth_clients'
             /\ oauth_clients'[c] = oauth_clients[c]
       /\ last'.op = "register" =>
             Cardinality(DOMAIN oauth_clients') =
                 Cardinality(DOMAIN oauth_clients) + 1
       /\ last'.op # "register" => oauth_clients' = oauth_clients]_vars

\* Two clients were registered, the first one's code was exchanged, time
\* passed and its token was presented on POST /sse; both records are as
\* registered.
C15_Witness ==
    /\ last.op = "sse_post"
    /\ advances > 0
    /\ DOMAIN oauth_clients = 1..2
    /\ \A c \in 1..2 : oauth_clients[c].client_secret = Secret(c)
    /\ \E m \in minted : m.client_id = 1 /\ last.auth_header = Bearer(m.token)

\* C16: a code record leaves the code table only in a token exchange that
\* presents that code and either succeeds or finds it expired; a token record
\* leaves the token table only in a bearer check that presents that token
\* after its expiry; every other record of both tables is left as it was by
\* every step, the passage of time included.
C16_LazyPruningOnly ==
    [][/\ \A c \in DOMAIN oauth_codes :
             IF c \in DOMAIN oauth_codes'
             THEN oauth_codes'[c] = oauth_codes[c]
             ELSE /\ last'.op = "token"
                  /\ last'.code = c
                  /\ \/ last'.response.status = 200
                     \/ /\ last'.response = CodeExpired
                        /\ oauth_codes[c].expires_at < now
       /\ \A t \in DOMAIN access_tokens :
             IF t \in DOMAIN access_tokens'
             THEN access_tokens'[t] = access_tokens[t]
             ELSE /\ last'.op \in {"sse_post", "sse_get"}
                  /\ last'.auth_header = Bearer(t)
                  /\ last'.auth_token = None
                  /\ access_tokens[t].expires_at <= now]_vars

\* A code was exchanged while another code, already expired, stayed in the
\* code table.
C16_Witness ==
    /\ last.op = "token"
    /\ last.response.status = 200
    /\ \E c \in DOMAIN oauth_codes :
          c # last.code /\ oauth_codes[c].expires_at < now

\* The exchange failed for a reason other than the expiry of the code.
FailedNotExpired(response) == response.status # 200 /\ response # CodeExpired

\* C18: a token exchange that fails for a reason other than expiry of the code
\* changes no table and stores no token; a stored, unexpired code presented in
\* such an exchange is exchanged afterwards by its owner with the right secret.
C18_FailedExchangeChangesNothing ==
    /\ \A g \in GrantTypes, code \in Codes, u \in URIs, c \in ClientIds,
          s \in Secrets :
            LET r == token_endpoint(g, code, u, c, s)
            IN  FailedNotExpired(r.response) =>
                    /\ r.oauth_codes = oauth_codes
                    /\ r.access_tokens = access_tokens
                    /\ r.stored = {}
    /\ \A i \in issued :
          (/\ last.op = "token"
           /\ last.code = i.code
           /\ FailedNotExpired(last.response)
           /\ i.code \notin MintedCodes
           /\ ~(i.expires_at < now)) =>
              /\ i.code \in DOMAIN oauth_codes
              /\ \A u \in URIs :
                    token_endpoint("authorization_code", i.code, u, i.client_id,
                                   Secret(i.client_id)).response.status = 200

\* The owner of a stored code presented it with a wrong secret and was
\* refused; the code is still in the table.
C18_Witness ==
    \E i \in issued :
        /\ last.op = "token"
        /\ last.grant_type = "authorization_code"
        /\ last.code = i.code
        /\ last.client_id = i.client_id
        /\ last.response = HTTPException(401, "Invalid client credentials")
        /\ i.code \in DOMAIN oauth_codes

\* C19: two exchanges from the same state that differ only in redirect_uri
\* give the same response, the same token record and the same tables, the
\* redirect URI bound to the code being one of the two or not.
C19_RedirectUriIgnored ==
    \A g \in GrantTypes, code \in Codes, c \in ClientIds, s \in Secrets,
       u1 \in URIs, u2 \in URIs :
         token_endpoint(g, code, u1, c, s) = token_endpoint(g, code, u2, c, s)

\* A code bound to one redirect URI was exchanged by a request that presented
\* the other one.
C19_Witness ==
    \E m \in minted, i \in issued :
        /\ last.op = "token"
        /\ last.response.status = 200
        /\ last.response.access_token = m.token
        /\ i.code = m.code
        /\ last.code = i.code
        /\ last.redirect_uri # i.redirect_uri

\* C20: a stored token minted at time t passes the bearer check exactly when
\* now < t + 24 hours, and is deleted by the check otherwise; a stored code
\* issued at time t is refused as expired exactly when now > t + 10 minutes,
\* and is exchanged by its owner otherwise.
C20_ExpiryBoundaries ==
    /\ \A m \in minted :
          m.token \in DOMAIN access_tokens =>
              LET g == get_auth_token(Bearer(m.token))
              IN  IF now < m.at + TokenTTL
                  THEN g.auth_token = Some(m.token)
                          /\ g.access_tokens = access_tokens
                  ELSE g.auth_token = None
                          /\ m.token \notin DOMAIN g.access_tokens
    /\ \A i \in issued :
          i.code \in DOMAIN oauth_codes =>
              LET r == token_endpoint("authorization_code", i.code,
                                      i.redirect_uri, i.client_id,
                                      Secret(i.client_id))
              IN  IF now > i.at + CodeTTL
                  THEN r.response = CodeExpired
                  ELSE r.response.status = 200
    /\ \A i \in issued :
          last.op = "token" /\ last.code = i.code =>
              /\ last.response = CodeExpired => now > i.at + CodeTTL
              /\ last.response.status = 200 => now <= i.at + CodeTTL
    /\ \A m \in minted :
          (last.op \in {"sse_post", "sse_get"}
              /\ last.auth_header = Bearer(m.token)) =>
                (last.auth_token = Some(m.token) <=> now < m.at + TokenTTL)

\* A code was exchanged exactly 10 minutes after it was issued.
C20_Witness ==
    \E i \in issued :
        /\ LastTokenRequestBy(i.code, i.client_id)
        /\ last.response.status = 200
        /\ now = i.at + CodeTTL

\* A token was presented exactly 24 hours after it was minted and refused.
C20_TokenAtBoundary ==
    \E m \in minted :
        /\ last.op = "sse_post"
        /\ last.auth_header = Bearer(m.token)
        /\ last.auth_token = None
        /\ now = m.at + TokenTTL

====
